---- MODULE Spec2Model ----
(***************************************************************************)
(* Model of the text -> parquet -> zstd pipeline of src/main.py and of the *)
(* modules under src/ it was split into.                                   *)
(*                                                                         *)
(* A text is a sequence of characters, a character is a one-character      *)
(* string.  A text file is the sequence of its lines (line terminators     *)
(* dropped); a binary file is the sequence of its bytes.                   *)
(***************************************************************************)
EXTENDS Naturals, Integers, Sequences, FiniteSets, TLC

PIPE  == "|"
COMMA == ","
TAB   == "\t"
HASH  == "#"
NL    == "\n"
QUOTE == "\""
SPACE == " "

Exts == {"tbl", "csv", "txt"}

(***************************************************************************)
(* Bounds of the model.                                                    *)
(***************************************************************************)
MaxFileLines == 5      \* lines of a text file given to the inference
MaxFiles     == 2      \* files in the input directory
MaxRows      == 4      \* lines of an input file of the pipeline
MaxFaults    == 2      \* faults of the environment in one run of the main program
MaxExportRows == 4     \* rows of a container given to the export
MaxBytes     == 4      \* bytes of an input of the zstd loops
MaxChunk     == 3      \* chunk size of the zstd loops

(***************************************************************************)
(* str methods used by the source.                                         *)
(***************************************************************************)
Whitespace == {SPACE, TAB, NL}

RECURSIVE count(_, _)
count(line, s) ==
    IF line = <<>> THEN 0
    ELSE (IF Head(line) = s THEN 1 ELSE 0) + count(Tail(line), s)

RECURSIVE lstrip(_)
lstrip(line) ==
    IF line # <<>> /\ Head(line) \in Whitespace THEN lstrip(Tail(line)) ELSE line

RECURSIVE rstrip(_)
rstrip(line) ==
    IF line # <<>> /\ line[Len(line)] \in Whitespace
    THEN rstrip(SubSeq(line, 1, Len(line) - 1))
    ELSE line

strip(line) == rstrip(lstrip(line))

startswith(line, c) == Len(line) >= 1 /\ line[1] = c

\* str.split(sep): the fields between the occurrences of sep, empty ones kept.
RECURSIVE split(_, _)
split(line, sep) ==
    IF count(line, sep) = 0 THEN <<line>>
    ELSE LET i == CHOOSE k \in 1..Len(line) :
                    line[k] = sep /\ \A j \in 1..(k - 1) : line[j] # sep
         IN  <<SubSeq(line, 1, i - 1)>> \o split(SubSeq(line, i + 1, Len(line)), sep)

\* f.readline() at line position pos: the line, or the empty string at end of
\* file.  A line that exists is never the empty string (it holds its newline).
AtEOF(lines, pos) == pos > Len(lines)
readline(lines, pos) == IF AtEOF(lines, pos) THEN <<>> ELSE lines[pos]

RECURSIVE SeqSum(_)
SeqSum(s) == IF s = <<>> THEN 0 ELSE Head(s) + SeqSum(Tail(s))

Range(s) == {s[i] : i \in 1..Len(s)}
Occurrences(s, v) == Cardinality({i \in 1..Len(s) : s[i] = v})

(***************************************************************************)
(* read_file_data_in_chunks: separator and column count inference.         *)
(***************************************************************************)
PreviewIterations == 20

\* [f.readline() for _ in range(20) if f.readline()]: each iteration reads one
\* line for the condition and, when that line exists, one more for the element.
RECURSIVE preview_from(_, _, _)
preview_from(lines, pos, iters) ==
    IF iters = 0 THEN <<>>
    ELSE IF AtEOF(lines, pos) THEN preview_from(lines, pos, iters - 1)
    ELSE <<readline(lines, pos + 1)>> \o preview_from(lines, pos + 2, iters - 1)

preview_lines_of(lines) == preview_from(lines, 2, PreviewIterations)

valid_lines_of(preview_lines) ==
    LET kept == SelectSeq(preview_lines,
                   LAMBDA line : strip(line) # <<>> /\ ~startswith(line, HASH))
    IN  [i \in 1..Len(kept) |-> strip(kept[i])]

possible_seps == <<PIPE, COMMA, TAB>>

\* sep_counter[s]: occurrences of s over the valid lines.
sep_counter(valid_lines, s) ==
    SeqSum([i \in 1..Len(valid_lines) |-> count(valid_lines[i], s)])

\* A variant of most_common_sep that takes the last of the keys that have the
\* highest count.
most_common_sep_last(valid_lines) ==
    LET best == CHOOSE i \in 1..Len(possible_seps) :
                  /\ \A j \in 1..Len(possible_seps) :
                        sep_counter(valid_lines, possible_seps[j])
                            <= sep_counter(valid_lines, possible_seps[i])
                  /\ \A j \in (i + 1)..Len(possible_seps) :
                        sep_counter(valid_lines, possible_seps[j])
                            < sep_counter(valid_lines, possible_seps[i])
    IN  possible_seps[best]

\* Counter.most_common(1)[0][0]: the first key, in insertion order, that has
\* the highest count.
most_common_sep(valid_lines) ==
    LET best == CHOOSE i \in 1..Len(possible_seps) :
                  /\ \A j \in 1..Len(possible_seps) :
                        sep_counter(valid_lines, possible_seps[j])
                            <= sep_counter(valid_lines, possible_seps[i])
                  /\ \A j \in 1..(i - 1) :
                        sep_counter(valid_lines, possible_seps[j])
                            < sep_counter(valid_lines, possible_seps[i])
    IN  possible_seps[best]

column_counts_of(valid_lines, sep) ==
    [i \in 1..Len(valid_lines) |-> Len(split(valid_lines[i], sep))]

\* max(set(column_counts), key=column_counts.count): the first most frequent
\* count in the iteration order of the set, which for a set of small integers
\* is increasing order.
modal_count(column_counts) ==
    CHOOSE c \in Range(column_counts) :
        /\ \A d \in Range(column_counts) :
              Occurrences(column_counts, d) <= Occurrences(column_counts, c)
        /\ \A d \in Range(column_counts) :
              Occurrences(column_counts, d) = Occurrences(column_counts, c) => c <= d

column_names_of(num_columns) == [i \in 1..num_columns |-> <<"col", i - 1>>]

type_separator(file_type) ==
    CASE file_type = "tbl" -> PIPE
      [] file_type = "csv" -> COMMA
      [] file_type = "txt" -> TAB

InferenceError(file_type, error, log) ==
    [ok |-> FALSE, error |-> error, file_type |-> file_type, sep |-> "",
     num_columns |-> 0, column_names |-> <<>>, log |-> log]

\* The outcome of read_file_data_in_chunks up to the construction of the
\* chunk iterator: either the schema handed to pd.read_csv or the error raised.
\* file_path is the path as a sequence of its components.
sep_after_first_line(file_path) == IF file_path = <<"tbl">> THEN PIPE ELSE COMMA

read_file_data_in_chunks(file_path, file_type, lines) ==
    IF file_type \notin Exts
    THEN InferenceError(file_type, "unsupported_type", <<>>)
    ELSE
    \* preview_lines, valid_lines and detected_sep are bound as values: each is
    \* computed once
    CHOOSE result \in {
    LET first_line       == strip(readline(lines, 1))
        sep              == sep_after_first_line(file_path)
        expected_columns == Len(split(first_line, sep))
        column_counts    == column_counts_of(valid_lines, sep)
        log1             == IF Cardinality(Range(column_counts)) > 1
                            THEN <<"dynamic_columns">> ELSE <<>>
    IN  IF preview_lines = <<>>
        THEN InferenceError(file_type, "empty_file", <<"parse_failed">>)
        ELSE IF valid_lines = <<>>
        THEN InferenceError(file_type, "no_valid_data", <<"parse_failed">>)
        ELSE IF detected_sep # sep
        THEN LET num_columns == modal_count(column_counts_of(valid_lines, detected_sep))
             IN  [ok |-> TRUE, error |-> "none", file_type |-> file_type,
                  sep |-> detected_sep, num_columns |-> num_columns,
                  column_names |-> column_names_of(num_columns),
                  log |-> log1 \o <<"sep_override", "stable_columns">>]
        \* num_columns was never assigned: building column_names raises
        \* UnboundLocalError, which the handler logs and re-raises.
        ELSE InferenceError(file_type, "num_columns_unbound", log1 \o <<"parse_failed">>)
    : preview_lines \in {preview_lines_of(lines)},
      valid_lines \in {valid_lines_of(preview_lines_of(lines))},
      detected_sep \in {most_common_sep(valid_lines_of(preview_lines_of(lines)))} } : TRUE

(***************************************************************************)
(* pd.read_csv(..., sep, header=None, names=column_names, chunksize): the   *)
(* rows of the file, delivered lazily in chunks of chunk_size rows.        *)
(* chunk_size stands for the 50000 rows of the source, scaled to the       *)
(* files of the model.                                                     *)
(***************************************************************************)
chunk_size == 2

\* Blank lines are skipped; a row shorter than the names is filled with
\* missing values (the empty text here: to_csv writes a missing value as the
\* empty text); a row longer than the names is a parser error.
pad_row(fields, n) == [i \in 1..n |-> IF i <= Len(fields) THEN fields[i] ELSE <<>>]

data_lines(lines) == SelectSeq(lines, LAMBDA line : strip(line) # <<>>)

read_csv(lines, sep, num_columns) ==
    LET kept == data_lines(lines)
        bad  == \E i \in 1..Len(kept) : Len(split(kept[i], sep)) > num_columns
    IN  [ok   |-> ~bad,
         rows |-> IF bad THEN <<>>
                  ELSE [i \in 1..Len(kept) |-> pad_row(split(kept[i], sep), num_columns)]]

Min(a, b) == IF a <= b THEN a ELSE b

\* The chunks of at most n elements a sequence is read in.
RECURSIVE chunks_of(_, _)
chunks_of(s, n) ==
    IF s = <<>> THEN <<>>
    ELSE <<SubSeq(s, 1, Min(n, Len(s)))>> \o chunks_of(SubSeq(s, n + 1, Len(s)), n)

RECURSIVE Concat(_)
Concat(ss) == IF ss = <<>> THEN <<>> ELSE Head(ss) \o Concat(Tail(ss))

(***************************************************************************)
(* The parquet container, as the bytes of its file: the magic, one row     *)
(* group per table written, and on close the footer (which holds the       *)
(* schema and its key-value metadata) and the magic again.                 *)
(***************************************************************************)
ParMagic == [t |-> "PAR1"]
RowGroup(rows) == [t |-> "rowgroup", rows |-> rows]
Footer(sch) == [t |-> "footer", names |-> sch.names, metadata |-> sch.metadata]

\* pa.Schema.from_pandas(df): the columns of the frame, and pandas' own
\* metadata entry as the only metadata.
from_pandas(columns) == [names |-> columns, metadata |-> {<<"pandas", "index">>}]

\* schema.with_metadata(m): the same fields, the metadata replaced by m.
with_metadata(sch, m) == [sch EXCEPT !.metadata = m]

\* metadata.get(key, default)
metadata_get(metadata, key, default) ==
    IF \E kv \in metadata : kv[1] = key
    THEN (CHOOSE kv \in metadata : kv[1] = key)[2]
    ELSE default

\* Lines 496-505 of convert_to_columnar_in_chunks: the schema given to the
\* ParquetWriter.  The schema that carries original_extension is built first
\* and then replaced by a second Schema.from_pandas of the renamed frame.
\* The columns are of category type, none is a string field, so the loop over
\* the fields changes nothing.
writer_schema(num_columns, file_type) ==
    LET schema1 == from_pandas(column_names_of(num_columns))
        schema2 == with_metadata(schema1, {<<"original_extension", file_type>>})
        schema3 == from_pandas(column_names_of(num_columns))
    IN  schema3

\* The file a run of convert_to_columnar_in_chunks leaves behind.  fail is
\* where the run raises: "none"; "next" (fetching the first chunk, before
\* the writer exists: no file is written); "open" (the writer has created
\* the file and fails before its first write: an empty file); "write" with
\* the index of the chunk whose write_table raises (the magic and the row
\* groups written before it, no footer).
NoFail == [at |-> "none", i |-> 0]

container_written(chunks, file_type, num_columns, fail) ==
    LET groups == [i \in 1..Len(chunks) |-> RowGroup(chunks[i])]
    IN  CASE fail.at = "none"  ->
               <<ParMagic>> \o groups
                   \o <<Footer(writer_schema(num_columns, file_type)), ParMagic>>
          [] fail.at = "open"  -> <<>>
          [] fail.at = "write" -> <<ParMagic>> \o SubSeq(groups, 1, fail.i - 1)

\* pq.ParquetFile(path): the footer is read from the end of the file; a file
\* without it is not a parquet file.
ParquetFile(bytes) ==
    LET n  == Len(bytes)
        ok == /\ n >= 3
              /\ bytes[1] = ParMagic
              /\ bytes[n] = ParMagic
              /\ bytes[n - 1].t = "footer"
    IN  [ok       |-> ok,
         metadata |-> IF ok THEN bytes[n - 1].metadata ELSE {},
         groups   |-> IF ok THEN [i \in 1..(n - 3) |-> bytes[i + 1].rows] ELSE <<>>]

\* parquet_file.iter_batches(batch_size): the rows of each row group, in row
\* groups order, in batches of at most batch_size rows.
iter_batches(groups, batch_size) ==
    Concat([i \in 1..Len(groups) |-> chunks_of(groups[i], batch_size)])

(***************************************************************************)
(* convert_parquet_to_text_in_chunks: rendering of the batches.            *)
(***************************************************************************)
RECURSIVE join(_, _)
join(texts, sep) ==
    IF texts = <<>> THEN <<>>
    ELSE IF Len(texts) = 1 THEN texts[1]
    ELSE texts[1] \o <<sep>> \o join(Tail(texts), sep)

\* csv writing with minimal quoting: a field that holds the separator, the
\* quote character or a line break is quoted, and so is the only field of a
\* row when it is empty.
render_field(field, sep) ==
    IF \E i \in 1..Len(field) : field[i] \in {sep, QUOTE, NL}
    THEN <<QUOTE>> \o field \o <<QUOTE>>
    ELSE field

render_row(row, sep) ==
    IF Len(row) = 1 /\ row[1] = <<>> THEN <<QUOTE, QUOTE>>
    ELSE join([i \in 1..Len(row) |-> render_field(row[i], sep)], sep)

\* df.to_csv(sep=sep, header=False, index=False, lineterminator='\n')
to_csv(rows, sep) == Concat([i \in 1..Len(rows) |-> render_row(rows[i], sep) \o <<NL>>])

RECURSIVE lstrip_nl(_)
lstrip_nl(text) ==
    IF text # <<>> /\ Head(text) = NL THEN lstrip_nl(Tail(text)) ELSE text

RECURSIVE rstrip_nl(_)
rstrip_nl(text) ==
    IF text # <<>> /\ text[Len(text)] = NL
    THEN rstrip_nl(SubSeq(text, 1, Len(text) - 1))
    ELSE text

\* df_string.strip('\n')
strip_nl(text) == rstrip_nl(lstrip_nl(text))

\* A variant of write_batch that writes df_string as to_csv returns it.
write_batch_unstripped(written, is_first, batch, sep) ==
    written \o (IF ~is_first THEN <<NL>> ELSE <<>>) \o to_csv(batch, sep)

\* One iteration of the loop over the batches: what is in the output file
\* after it.
write_batch(written, is_first_chunk, batch, sep) ==
    LET df_string == to_csv(batch, sep)
    IN  written \o (IF ~is_first_chunk THEN <<NL>> ELSE <<>>) \o strip_nl(df_string)

RECURSIVE write_batches(_, _, _, _)
write_batches(written, is_first_chunk, batches, sep) ==
    IF batches = <<>> THEN written
    ELSE write_batches(write_batch(written, is_first_chunk, Head(batches), sep),
                       FALSE, Tail(batches), sep)

\* The lines of a text, for comparing it with a file read line by line.
splitlines(text) == IF text = <<>> THEN <<>> ELSE split(text, NL)

(***************************************************************************)
(* The zstd envelope.  An archive is one frame: the magic, then blocks,    *)
(* each a header (its length, and whether it is the last) followed by its  *)
(* data.  The stream writer emits one block per write and, when it is      *)
(* closed, an empty last block that ends the frame.                        *)
(***************************************************************************)
ZMagic == [t |-> "zstd_magic"]
ZBlock(data, last) == <<[t |-> "zstd_block", last |-> last, n |-> Len(data)]>> \o data

\* A variant of read_chunk that returns whole chunks only.
read_chunk_whole(data, pos, n) ==
    IF pos + n - 1 > Len(data) THEN <<>> ELSE SubSeq(data, pos, pos + n - 1)

\* f_in.read(n) / reader.read(n) at offset pos: at most n bytes, none at the end.
read_chunk(data, pos, n) == SubSeq(data, pos, Min(pos + n - 1, Len(data)))

\* while True: chunk = read(n); if not chunk: break; write(chunk)
\* The chunks written, in order.
RECURSIVE chunk_loop(_, _, _)
chunk_loop(data, pos, n) ==
    LET chunk == read_chunk(data, pos, n)
    IN  IF chunk = <<>> THEN <<>>
        ELSE <<chunk>> \o chunk_loop(data, pos + Len(chunk), n)

\* cctx.stream_writer(f_out): what reaches f_out for the chunks written.
stream_writer(chunks) ==
    <<ZMagic>> \o Concat([i \in 1..Len(chunks) |-> ZBlock(chunks[i], FALSE)])
               \o ZBlock(<<>>, TRUE)

\* The archive compress_with_zstd writes for the bytes of input_file.
zstd_compress(input, n) == stream_writer(chunk_loop(input, 1, n))

\* dctx.stream_reader(f_in): the bytes decoded from the archive, and how the
\* frame ended: "ok" (its last block was read), "truncated" (the input ends
\* inside the frame) or "corrupt" (not a frame).
RECURSIVE decode_blocks(_, _)
decode_blocks(archive, pos) ==
    IF pos > Len(archive) THEN [out |-> <<>>, status |-> "truncated"]
    ELSE LET h == archive[pos]
         IN  IF h.t # "zstd_block" THEN [out |-> <<>>, status |-> "corrupt"]
             ELSE IF pos + h.n > Len(archive)
             THEN [out |-> <<>>, status |-> "truncated"]
             ELSE LET data == SubSeq(archive, pos + 1, pos + h.n)
                      rest == decode_blocks(archive, pos + h.n + 1)
                  IN  IF h.last THEN [out |-> data, status |-> "ok"]
                      ELSE [rest EXCEPT !.out = data \o @]

stream_reader(archive) ==
    IF archive = <<>> THEN [out |-> <<>>, status |-> "truncated"]
    ELSE IF archive[1].t # "zstd_magic" THEN [out |-> <<>>, status |-> "corrupt"]
    ELSE decode_blocks(archive, 2)

\* decompress_with_zstd: the bytes written to output_file and whether the
\* call raised.  On an archive that ends inside its frame the reader either
\* raises or reports the end of the stream; strict tells which.
zstd_decompress(archive, n, strict) ==
    CHOOSE result \in {
        [out    |-> Concat(chunk_loop(decoded.out, 1, n)),
         raised |-> \/ decoded.status = "corrupt"
                    \/ decoded.status = "truncated" /\ strict]
        : decoded \in {stream_reader(archive)} } : TRUE

(***************************************************************************)
(* Paths and directories.  A file name is the sequence of its              *)
(* dot-separated components; a directory maps the names in it to the       *)
(* contents of the files.                                                  *)
(***************************************************************************)
\* file_name.endswith(("." + e for e in exts))
endswith_ext(name, exts) == Len(name) >= 2 /\ name[Len(name)] \in exts

\* os.path.splitext(name): <<root, extension without its dot>>
splitext(name) ==
    IF Len(name) >= 2
    THEN <<SubSeq(name, 1, Len(name) - 1), name[Len(name)]>>
    ELSE <<name, "">>

\* file_name.split(".")[-1]
last_component(name) == name[Len(name)]

\* f"{base}.{ext}"
with_ext(base, ext) == Append(base, ext)

exists(dir, name) == name \in DOMAIN dir
put(dir, name, content) ==
    [n \in DOMAIN dir \cup {name} |-> IF n = name THEN content ELSE dir[n]]
\* A variant of remove that leaves the file in place.
remove_nothing(dir, name) == dir

\* os.remove(path)
remove(dir, name) == [n \in DOMAIN dir \ {name} |-> dir[n]]

(***************************************************************************)
(* State.                                                                  *)
(***************************************************************************)
VARIABLES
    file_type,          \* inference: the type hint
    file_lines,         \* inference: the lines of the file
    schema,             \* inference: outcome of read_file_data_in_chunks
    data_dir,           \* the input directory
    compress_dir,       \* the directory of the archives and the intermediates
    decompress_dir,     \* the directory of the reconstructed files
    listing,            \* os.listdir() of the loop that is running
    idx,                \* position of the loop in listing
    pc,                 \* where the main program stands
    chunk_iterator,     \* compressmain: what read_file_data_in_chunks returned
    original_ext,       \* decompressmain: the extension read from the metadata
    compression_stats,  \* the global statistics
    c_status,           \* per input file: "Pending", "Done" or "Failed"
    d_status,           \* per archive: "Pending", "Done" or "Failed"
    history,            \* what has happened to the files, for the claims
    export_type,        \* export: the target type
    export_rows,        \* export: the rows of the container
    export_pos,         \* export: rows delivered so far
    export_batches,     \* export: batches delivered so far
    is_first_chunk,     \* export: the flag of the loop over the batches
    text_file,          \* export: the text written so far
    z_input,            \* zstd: the bytes of the input file
    z_chunk_size,       \* zstd: the chunk size of the loops
    z_pc,               \* zstd: "compress", "decompress" or "done"
    z_pos,              \* zstd: offset of the next read
    z_written,          \* zstd: the chunks written to the compressor
    z_archive,          \* zstd: the archive
    z_out               \* zstd: the bytes written by the decompression loop

inferVars  == <<file_type, file_lines, schema>>
exportVars == <<export_type, export_rows, export_pos, export_batches,
                is_first_chunk, text_file>>
zstdVars   == <<z_input, z_chunk_size, z_pc, z_pos, z_written, z_archive, z_out>>
mainVars  == <<data_dir, compress_dir, decompress_dir, listing, idx, pc,
               chunk_iterator, original_ext, compression_stats, c_status,
               d_status, history>>
vars == <<inferVars, mainVars, exportVars, zstdVars>>

NoSchema == InferenceError("", "pending", <<>>)
NoIterator == [schema |-> NoSchema, parsed |-> [ok |-> FALSE, rows |-> <<>>]]
NoHistory ==
    [conv_failed      |-> {},   \* input files whose conversion raised
     compress_invoked |-> {},   \* input files compress_with_zstd was called for
     truncated        |-> {},   \* archives cut short between the two runs
     origin           |-> <<>>, \* per archive, the input file it was made from
     created          |-> <<>>, \* per container, the file it was last written for
     faults           |-> 0,    \* faults of the environment so far
     faulted          |-> {},   \* the files a fault struck the processing of
     sizes            |-> <<0, 0>>,  \* sizes measured for the current file
     done_original    |-> 0,    \* container bytes of the files that are Done
     done_compressed  |-> 0]    \* archive bytes of the files that are Done

InferIdle == file_type = "tbl" /\ file_lines = <<>> /\ schema = NoSchema
ExportIdle ==
    /\ export_type = "tbl" /\ export_rows = <<>> /\ export_pos = 0
    /\ export_batches = 0
    /\ is_first_chunk = TRUE /\ text_file = <<>>
ZstdIdle ==
    /\ z_input = <<>> /\ z_chunk_size = 1 /\ z_pc = "idle" /\ z_pos = 1
    /\ z_written = <<>> /\ z_archive = <<>> /\ z_out = <<>>
MainIdle ==
    /\ data_dir = <<>> /\ compress_dir = <<>> /\ decompress_dir = <<>>
    /\ listing = <<>> /\ idx = 1 /\ pc = "idle"
    /\ chunk_iterator = NoIterator /\ original_ext = ""
    /\ compression_stats = [total_original |-> 0, total_compressed |-> 0, file_count |-> 0]
    /\ c_status = <<>> /\ d_status = <<>> /\ history = NoHistory

(***************************************************************************)
(* SpecInfer: read_file_data_in_chunks applied to every small file.        *)
(***************************************************************************)
\* The lines files are made of: a blank line, a comment, a line without any
\* separator, a two-field line in each separator, and a line mixing them.
LinePool ==
    { <<>>,
      <<HASH, "a">>,
      <<"a">>,
      <<"a", PIPE, "b">>,
      <<"a", COMMA, "b">>,
      <<"a", TAB, "b">>,
      <<"a", COMMA, "b", PIPE, "c", COMMA, "d">> }

RECURSIVE SeqsUpTo(_, _)
SeqsUpTo(S, n) ==
    IF n = 0 THEN {<<>>}
    ELSE LET shorter == SeqsUpTo(S, n - 1)
         IN  shorter \cup {Append(s, x) : s \in {t \in shorter : Len(t) = n - 1}, x \in S}

InferPath(ft) == <<"data", "x", ft>>

InitInfer ==
    /\ file_type \in Exts
    /\ file_lines \in SeqsUpTo(LinePool, MaxFileLines)
    /\ schema = NoSchema
    /\ MainIdle /\ ExportIdle /\ ZstdIdle

Infer ==
    /\ pc = "idle"
    /\ schema = NoSchema
    /\ schema' = read_file_data_in_chunks(InferPath(file_type), file_type, file_lines)
    /\ UNCHANGED <<file_type, file_lines, mainVars, exportVars, zstdVars>>

NextInfer == Infer

SpecInfer == InitInfer /\ [][NextInfer]_vars

(***************************************************************************)
(* SpecExport: the loop of convert_parquet_to_text_in_chunks over the      *)
(* batches of a container, for every cut of its rows into batches.         *)
(***************************************************************************)
\* Rows of one and of two fields: a field may be empty or hold a separator.
\* The rows of a container have the same number of fields.
RowPool ==
    { << <<>> >>,
      << <<"a">> >>,
      << <<"a">>, <<>> >>,
      << <<>>, <<>> >>,
      << <<PIPE>>, <<"b", COMMA>> >> }

InitExport ==
    /\ InferIdle /\ MainIdle /\ ZstdIdle
    /\ export_type \in Exts
    /\ export_rows \in {rows \in SeqsUpTo(RowPool, MaxExportRows) :
                            /\ rows # <<>>
                            /\ \A i \in 1..Len(rows) : Len(rows[i]) = Len(rows[1])}
    /\ export_pos = 0
    /\ export_batches = 0
    /\ is_first_chunk = TRUE
    /\ text_file = <<>>

\* One iteration of the loop: the next batch, of any size, is rendered and
\* written.
ExportBatch ==
    /\ pc = "idle" /\ z_pc = "idle"
    /\ export_pos < Len(export_rows)
    /\ \E k \in 1..(Len(export_rows) - export_pos) :
         LET batch == SubSeq(export_rows, export_pos + 1, export_pos + k)
         IN  /\ text_file' = write_batch(text_file, is_first_chunk, batch,
                                           type_separator(export_type))
             /\ export_pos' = export_pos + k
    /\ export_batches' = export_batches + 1
    /\ is_first_chunk' = FALSE
    /\ UNCHANGED <<inferVars, mainVars, zstdVars, export_type, export_rows>>

NextExport == ExportBatch

SpecExport == InitExport /\ [][NextExport]_vars

(***************************************************************************)
(* SpecZstd: the chunk loops of compress_with_zstd and                     *)
(* decompress_with_zstd on every small input, one iteration at a time.     *)
(***************************************************************************)
Byte(v) == [t |-> "byte", v |-> v]
Bytes == {Byte(0), Byte(1)}

InitZstd ==
    /\ InferIdle /\ MainIdle /\ ExportIdle
    /\ z_input \in SeqsUpTo(Bytes, MaxBytes)
    /\ z_chunk_size \in 1..MaxChunk
    /\ z_pc = "compress"
    /\ z_pos = 1
    /\ z_written = <<>>
    /\ z_archive = <<>>
    /\ z_out = <<>>

\* compress_with_zstd: chunk = f_in.read(chunk_size); compressor.write(chunk)
CompressChunk ==
    /\ z_pc = "compress"
    /\ LET chunk == read_chunk(z_input, z_pos, z_chunk_size)
       IN  /\ chunk # <<>>
           /\ z_written' = Append(z_written, chunk)
           /\ z_pos' = z_pos + Len(chunk)
    /\ UNCHANGED <<inferVars, mainVars, exportVars, z_input, z_chunk_size, z_pc,
                   z_archive, z_out>>

\* if not chunk: break, and the stream writer is closed
CompressBreak ==
    /\ z_pc = "compress"
    /\ read_chunk(z_input, z_pos, z_chunk_size) = <<>>
    /\ z_archive' = stream_writer(z_written)
    /\ z_pc' = "decompress"
    /\ z_pos' = 1
    /\ UNCHANGED <<inferVars, mainVars, exportVars, z_input, z_chunk_size,
                   z_written, z_out>>

\* decompress_with_zstd: chunk = reader.read(chunk_size); f_out.write(chunk)
DecompressChunk ==
    /\ z_pc = "decompress"
    /\ LET chunk == read_chunk(stream_reader(z_archive).out, z_pos, z_chunk_size)
       IN  /\ chunk # <<>>
           /\ z_out' = z_out \o chunk
           /\ z_pos' = z_pos + Len(chunk)
    /\ UNCHANGED <<inferVars, mainVars, exportVars, z_input, z_chunk_size, z_pc,
                   z_written, z_archive>>

\* if not chunk: break
DecompressBreak ==
    /\ z_pc = "decompress"
    /\ read_chunk(stream_reader(z_archive).out, z_pos, z_chunk_size) = <<>>
    /\ z_pc' = "done"
    /\ UNCHANGED <<inferVars, mainVars, exportVars, z_input, z_chunk_size, z_pos,
                   z_written, z_archive, z_out>>

NextZstd ==
    \/ CompressChunk
    \/ CompressBreak
    \/ DecompressChunk
    \/ DecompressBreak

SpecZstd == InitZstd /\ [][NextZstd]_vars

\* The loops run on their own: a loop that can take a step takes it.
FairSpecZstd == SpecZstd /\ WF_vars(NextZstd)

(***************************************************************************)
(* Spec: the main program, compressmain() and then decompressmain(), on a  *)
(* directory of input files.                                               *)
(***************************************************************************)
data_dir_name == "data"

\* chunk sizes of the two zstd loops, scaled to the files of the model
compress_chunk_size == 3
decompress_chunk_size == 2

\* The names of the input files: two that differ in the extension only, one
\* whose base name has a dot, one of each type, and one the loop skips.
NamePool ==
    { <<"x", "tbl">>, <<"x", "txt">>, <<"x", "b", "tbl">>, <<"y", "csv">>,
      <<"x", "log">> }

Perms(S) ==
    {l \in SeqsUpTo(S, Cardinality(S)) : Len(l) = Cardinality(S) /\ Range(l) = S}

\* os.listdir(dir): the names in the directory, in any order.  The loops skip
\* the names without one of the extensions exts, whose places in the list have
\* no effect: they are listed first.
listdir(names, exts) ==
    LET skipped == {n \in names : ~endswith_ext(n, exts)}
        first   == CHOOSE l \in Perms(skipped) : TRUE
    IN  {first \o l : l \in Perms(names \ skipped)}

Letters == <<"a", "b", "c", "d", "e", "f">>

\* An input file of n lines of two fields, separated as its extension says.
\* The second field tells the files with a dot in the base name from the others.
Content(name, n) ==
    LET ext == last_component(name)
        sep == IF ext \in Exts THEN type_separator(ext) ELSE SPACE
        tag == IF Len(name) > 2 THEN "w" ELSE "z"
    IN  [i \in 1..n |-> <<Letters[i], sep, tag>>]

Init ==
    /\ InferIdle /\ ExportIdle /\ ZstdIdle
    /\ \E names \in {S \in SUBSET NamePool : Cardinality(S) \in 1..MaxFiles} :
         /\ listing \in listdir(names, Exts)
         /\ \E n \in (MaxRows - 1)..MaxRows :
              data_dir = [name \in names |-> Content(name, n)]
    /\ compress_dir = <<>>
    /\ decompress_dir = <<>>
    /\ idx = 1
    /\ pc = "c_for"
    /\ chunk_iterator = NoIterator
    /\ original_ext = ""
    /\ compression_stats = [total_original |-> 0, total_compressed |-> 0, file_count |-> 0]
    /\ c_status = [name \in {n \in Range(listing) : endswith_ext(n, Exts)} |-> "Pending"]
    /\ d_status = <<>>
    /\ history = NoHistory

\* A fault of the environment (a full disk, a file that cannot be removed, an
\* archive damaged) may strike while fewer than MaxFaults have.
MayFail == history.faults < MaxFaults
Fault(h) == [h EXCEPT !.faults = @ + 1, !.faulted = @ \cup {listing[idx]}]
Damage(h, name) == [h EXCEPT !.faults = @ + 1, !.truncated = @ \cup {name}]

file_name == listing[idx]
InLoop == idx <= Len(listing)

\* A variant of except_continue that leaves the loop.
except_break(i) == Len(listing) + 1

\* compressmain, line 676-678: the failure is logged and the loop continues.
except_continue(i) == i + 1

CompressFailed(h) ==
    /\ c_status' = [c_status EXCEPT ![file_name] = "Failed"]
    /\ idx' = except_continue(idx)
    /\ pc' = "c_for"
    /\ chunk_iterator' = NoIterator
    /\ history' = h

\* for file_name in os.listdir(data_dir): a name that is no .tbl/.csv/.txt
CompressSkip ==
    /\ pc = "c_for" /\ InLoop
    /\ ~endswith_ext(file_name, Exts)
    /\ idx' = idx + 1
    /\ UNCHANGED <<inferVars, exportVars, zstdVars, data_dir, compress_dir, decompress_dir, listing, pc,
                   chunk_iterator, original_ext, compression_stats, c_status,
                   d_status, history>>

\* lines 655-661: read_file_data_in_chunks(file_path, file_type)
CompressRead ==
    /\ pc = "c_for" /\ InLoop
    /\ endswith_ext(file_name, Exts)
    /\ LET file_path == <<data_dir_name>> \o file_name
           ftype     == last_component(file_name)
       IN  \E sch \in {read_file_data_in_chunks(file_path, ftype, data_dir[file_name])} :
           IF sch.ok
           THEN /\ chunk_iterator' =
                      [schema |-> sch,
                       parsed |-> read_csv(data_dir[file_name], sch.sep, sch.num_columns)]
                /\ pc' = "c_convert"
                /\ UNCHANGED <<idx, c_status, history>>
           ELSE CompressFailed(history)
    /\ UNCHANGED <<inferVars, exportVars, zstdVars, data_dir, compress_dir, decompress_dir, listing,
                   original_ext, compression_stats, d_status>>

\* main.py, lines 528-529: the handler of convert_to_columnar_in_chunks logs
\* the error and returns.
convert_reraises == FALSE

\* lines 663-664: convert_to_columnar_in_chunks(chunk_iterator, temp_parquet, file_type)
CompressConvert ==
    /\ pc = "c_convert"
    /\ LET ftype        == last_component(file_name)
           base_name    == splitext(file_name)[1]
           temp_parquet == with_ext(base_name, "parquet")
           chunks       == chunks_of(chunk_iterator.parsed.rows, chunk_size)
           FailPoints   ==
               IF ~chunk_iterator.parsed.ok THEN {[at |-> "next", i |-> 0]}
               ELSE {NoFail} \cup
                    (IF MayFail
                     THEN {[at |-> "next", i |-> 0], [at |-> "open", i |-> 0]}
                          \cup {[at |-> "write", i |-> k] : k \in 1..Len(chunks)}
                     ELSE {})
       IN  \E fail \in FailPoints :
             LET h1 == IF fail = NoFail \/ ~chunk_iterator.parsed.ok
                       THEN history ELSE Fault(history)
                 h2 == IF fail = NoFail THEN h1
                       ELSE [h1 EXCEPT !.conv_failed = @ \cup {file_name}]
                 h3 == IF fail.at = "next" THEN h2
                       ELSE [h2 EXCEPT !.created = put(@, temp_parquet, file_name)]
             IN  /\ compress_dir' =
                       IF fail.at = "next" THEN compress_dir
                       ELSE put(compress_dir, temp_parquet,
                                container_written(chunks, ftype,
                                    chunk_iterator.schema.num_columns, fail))
                 /\ IF fail # NoFail /\ convert_reraises
                    THEN CompressFailed(h3)
                    ELSE /\ pc' = "c_compress"
                         /\ history' = h3
                         /\ UNCHANGED <<idx, c_status, chunk_iterator>>
    /\ UNCHANGED <<inferVars, exportVars, zstdVars, data_dir, decompress_dir, listing, original_ext,
                   compression_stats, d_status>>

\* compress_with_zstd, lines 553-555
update_stats(stats, original_size, compressed_size) ==
    [total_original   |-> stats.total_original + original_size,
     total_compressed |-> stats.total_compressed + compressed_size,
     file_count       |-> stats.file_count + 1]

\* lines 666-667: compress_with_zstd(temp_parquet, compressed_file)
CompressZstd ==
    /\ pc = "c_compress"
    /\ LET base_name       == splitext(file_name)[1]
           temp_parquet    == with_ext(base_name, "parquet")
           compressed_file == with_ext(base_name, "zstd")
           h0 == [history EXCEPT !.compress_invoked = @ \cup {file_name}]
       IN  IF ~exists(compress_dir, temp_parquet)
           THEN \* open(input_file) raises
                /\ CompressFailed(h0)
                /\ UNCHANGED <<compress_dir, compression_stats>>
           ELSE
           \/ \* the write to f_out fails: the archive holds what had reached it
              /\ MayFail
              /\ compress_dir' = put(compress_dir, compressed_file, <<ZMagic>>)
              /\ CompressFailed(Fault(h0))
              /\ UNCHANGED compression_stats
           \/ LET input           == compress_dir[temp_parquet]
                  archive         == zstd_compress(input, compress_chunk_size)
                  original_size   == Len(input)
                  compressed_size == Len(archive)
                  h1 == [h0 EXCEPT !.sizes = <<original_size, compressed_size>>,
                                   !.origin = put(@, compressed_file, file_name)]
              IN  /\ compress_dir' = put(compress_dir, compressed_file, archive)
                  /\ compression_stats' =
                        update_stats(compression_stats, original_size, compressed_size)
                  /\ IF original_size = 0
                     THEN \* the ratio divides by zero
                          CompressFailed(h1)
                     ELSE /\ pc' = "c_remove"
                          /\ history' = h1
                          /\ UNCHANGED <<idx, c_status, chunk_iterator>>
    /\ UNCHANGED <<inferVars, exportVars, zstdVars, data_dir, decompress_dir, listing, original_ext, d_status>>

\* lines 668-674: os.remove(temp_parquet), and the file is done
CompressRemove ==
    /\ pc = "c_remove"
    /\ LET base_name    == splitext(file_name)[1]
           temp_parquet == with_ext(base_name, "parquet")
       IN  \/ /\ MayFail
              /\ CompressFailed(Fault(history))
              /\ UNCHANGED compress_dir
           \/ /\ compress_dir' = remove(compress_dir, temp_parquet)
              /\ c_status' = [c_status EXCEPT ![file_name] = "Done"]
              /\ history' = [history EXCEPT
                                !.done_original = @ + history.sizes[1],
                                !.done_compressed = @ + history.sizes[2]]
              /\ idx' = idx + 1
              /\ pc' = "c_for"
              /\ chunk_iterator' = NoIterator
    /\ UNCHANGED <<inferVars, exportVars, zstdVars, data_dir, decompress_dir, listing, original_ext,
                   compression_stats, d_status>>

\* lines 679-681: the loop of compressmain is over
CompressEnd ==
    /\ pc = "c_for" /\ ~InLoop
    /\ pc' = "between"
    /\ UNCHANGED <<inferVars, exportVars, zstdVars, data_dir, compress_dir, decompress_dir, listing, idx,
                   chunk_iterator, original_ext, compression_stats, c_status,
                   d_status, history>>

\* Between the two runs an archive may be damaged: cut to a strict prefix of
\* its bytes.
TruncateArchive ==
    /\ pc = "between"
    /\ MayFail
    /\ \E name \in DOMAIN compress_dir :
         /\ endswith_ext(name, {"zstd"})
         /\ \E k \in 0..(Len(compress_dir[name]) - 1) :
              compress_dir' = put(compress_dir, name, SubSeq(compress_dir[name], 1, k))
         /\ history' = Damage(history, name)
    /\ UNCHANGED <<inferVars, exportVars, zstdVars, data_dir, decompress_dir, listing, idx, pc,
                   chunk_iterator, original_ext, compression_stats, c_status, d_status>>

\* line 685: for compressed_file_name in os.listdir(compress_dir), in the
\* order the directory gives them
DecompressStart ==
    /\ pc = "between"
    /\ listing' \in listdir(DOMAIN compress_dir, {"zstd"})
    /\ idx' = 1
    /\ pc' = "d_for"
    /\ d_status' = [name \in {n \in DOMAIN compress_dir : endswith_ext(n, {"zstd"})}
                       |-> "Pending"]
    /\ UNCHANGED <<inferVars, exportVars, zstdVars, data_dir, compress_dir, decompress_dir, chunk_iterator,
                   original_ext, compression_stats, c_status, history>>

\* lines 689-693
decompressed_parquet_of(compressed_file_name) ==
    LET base_name                 == splitext(compressed_file_name)[1]
        original_name_without_ext == splitext(base_name)[1]
    IN  with_ext(original_name_without_ext, "parquet")

\* lines 689-690, 704
output_file_name_of(compressed_file_name, ext) ==
    LET base_name                 == splitext(compressed_file_name)[1]
        original_name_without_ext == splitext(base_name)[1]
    IN  with_ext(original_name_without_ext, ext)

\* decompressmain, lines 713-714: the failure is logged and the loop continues.
DecompressFailed(h) ==
    /\ d_status' = [d_status EXCEPT ![file_name] = "Failed"]
    /\ idx' = except_continue(idx)
    /\ pc' = "d_for"
    /\ history' = h

DecompressSkip ==
    /\ pc = "d_for" /\ InLoop
    /\ ~endswith_ext(file_name, {"zstd"})
    /\ idx' = idx + 1
    /\ UNCHANGED <<inferVars, exportVars, zstdVars, data_dir, compress_dir, decompress_dir, listing, pc,
                   chunk_iterator, original_ext, compression_stats, c_status,
                   d_status, history>>

\* lines 688-696: decompress_with_zstd(compressed_file_path, decompressed_parquet)
DecompressZstd ==
    /\ pc = "d_for" /\ InLoop
    /\ endswith_ext(file_name, {"zstd"})
    /\ LET archive == compress_dir[file_name]
           Strict  == IF stream_reader(archive).status = "truncated"
                      THEN BOOLEAN ELSE {TRUE}
       IN  \E strict \in Strict :
           \E res \in {zstd_decompress(archive, decompress_chunk_size, strict)} :
                 /\ compress_dir' =
                       put(compress_dir, decompressed_parquet_of(file_name), res.out)
                 /\ IF res.raised
                    THEN DecompressFailed(
                            [history EXCEPT !.created =
                                put(@, decompressed_parquet_of(file_name), file_name)])
                    ELSE /\ pc' = "d_meta"
                         /\ history' =
                               [history EXCEPT !.created =
                                   put(@, decompressed_parquet_of(file_name), file_name)]
                         /\ UNCHANGED <<idx, d_status>>
    /\ UNCHANGED <<inferVars, exportVars, zstdVars, data_dir, decompress_dir, listing, chunk_iterator,
                   original_ext, compression_stats, c_status>>

\* lines 699-701: the extension is read from the metadata of the container
DecompressMeta ==
    /\ pc = "d_meta"
    /\ LET parquet_file == ParquetFile(compress_dir[decompressed_parquet_of(file_name)])
       IN  IF ~parquet_file.ok
           THEN DecompressFailed(history) /\ UNCHANGED original_ext
           ELSE /\ original_ext' =
                      metadata_get(parquet_file.metadata, "original_extension", "tbl")
                /\ pc' = "d_export"
                /\ UNCHANGED <<idx, d_status, history>>
    /\ UNCHANGED <<inferVars, exportVars, zstdVars, data_dir, compress_dir, decompress_dir, listing,
                   chunk_iterator, compression_stats, c_status>>

\* lines 704-708: convert_parquet_to_text_in_chunks(decompressed_parquet,
\* output_path, original_ext)
DecompressExport ==
    /\ pc = "d_export"
    /\ IF original_ext \notin Exts
       THEN DecompressFailed(history) /\ UNCHANGED decompress_dir
       ELSE
       \E parquet_file \in {ParquetFile(compress_dir[decompressed_parquet_of(file_name)])} :
       \E batches \in {iter_batches(parquet_file.groups, chunk_size)} :
       LET output_name  == output_file_name_of(file_name, original_ext)
           sep          == type_separator(original_ext)
           Written      == {Len(batches)} \cup
                           (IF MayFail THEN 0..(Len(batches) - 1) ELSE {})
       IN  \E k \in Written :
             /\ decompress_dir' =
                   put(decompress_dir, output_name,
                       write_batches(<<>>, TRUE, SubSeq(batches, 1, k), sep))
             /\ IF k < Len(batches)
                THEN \* a write to the text file fails
                     DecompressFailed(Fault(history))
                ELSE /\ pc' = "d_remove"
                     /\ UNCHANGED <<idx, d_status, history>>
    /\ UNCHANGED <<inferVars, exportVars, zstdVars, data_dir, compress_dir, listing, chunk_iterator,
                   original_ext, compression_stats, c_status>>

\* lines 711-712: os.remove(decompressed_parquet), and the archive is done
DecompressRemove ==
    /\ pc = "d_remove"
    /\ \/ /\ MayFail
          /\ DecompressFailed(Fault(history))
          /\ UNCHANGED compress_dir
       \/ /\ compress_dir' = remove(compress_dir, decompressed_parquet_of(file_name))
          /\ d_status' = [d_status EXCEPT ![file_name] = "Done"]
          /\ idx' = idx + 1
          /\ pc' = "d_for"
          /\ UNCHANGED history
    /\ UNCHANGED <<inferVars, exportVars, zstdVars, data_dir, decompress_dir, listing, chunk_iterator,
                   original_ext, compression_stats, c_status>>

\* the loop of decompressmain is over
DecompressEnd ==
    /\ pc = "d_for" /\ ~InLoop
    /\ pc' = "finished"
    /\ UNCHANGED <<inferVars, exportVars, zstdVars, data_dir, compress_dir, decompress_dir, listing, idx,
                   chunk_iterator, original_ext, compression_stats, c_status,
                   d_status, history>>

Next ==
    \/ CompressSkip
    \/ CompressRead
    \/ CompressConvert
    \/ CompressZstd
    \/ CompressRemove
    \/ CompressEnd
    \/ TruncateArchive
    \/ DecompressStart
    \/ DecompressSkip
    \/ DecompressZstd
    \/ DecompressMeta
    \/ DecompressExport
    \/ DecompressRemove
    \/ DecompressEnd

Spec == Init /\ [][Next]_vars

\* The main program is sequential: whenever it can take a step it does.
FairSpec == Spec /\ WF_vars(Next)

(***************************************************************************)
(* Properties.                                                             *)
(***************************************************************************)
Eligible(names) == {n \in names : endswith_ext(n, Exts)}
Terminal == {"Done", "Failed"}

\* C1: Metadata round-trip.  When decompressmain has read the metadata of the
\* container of an intact archive whose input file went through the whole
\* forward run, the extension it has read is the extension of that input file.
C1_MetadataRoundTrip ==
    (pc = "d_export" /\ file_name \in DOMAIN history.origin) =>
        LET source == history.origin[file_name]
        IN  (/\ c_status[source] = "Done"
             /\ source \notin history.conv_failed
             /\ file_name \notin history.truncated)
            => original_ext = last_component(source)

\* C2: Round-trip fidelity.  After compressmain and decompressmain have run
\* without any fault of the environment, every input file (all are valid:
\* two fields in each line, separated as the extension says) has a
\* reconstructed file with the same lines: the same rows in the same order,
\* the same fields joined by the same separator.
C2_RoundTripFidelity ==
    (pc = "finished" /\ history.faults = 0) =>
        \A name \in Eligible(DOMAIN data_dir) :
            \E out \in DOMAIN decompress_dir :
                splitlines(decompress_dir[out]) = data_dir[name]

\* C3: Batch-boundary newline invariant.  When the export loop has written
\* all R >= 1 rows, in whatever batches, the text is the rendered rows joined
\* by one newline each: R - 1 newlines, none before the first row, none after
\* the last, none doubled.
C3_BatchBoundaryNewlines ==
    (export_rows # <<>> /\ export_pos = Len(export_rows)) =>
        LET sep      == type_separator(export_type)
            rendered == [i \in 1..Len(export_rows) |-> render_row(export_rows[i], sep)]
        IN  /\ text_file = join(rendered, NL)
            /\ count(text_file, NL) = Len(export_rows) - 1
            /\ Head(text_file) # NL
            /\ text_file[Len(text_file)] # NL
            /\ \A i \in 1..(Len(text_file) - 1) :
                  ~(text_file[i] = NL /\ text_file[i + 1] = NL)

\* C3 witness: the rows were exported in several batches, one of them of
\* several rows.
C3_Witness ==
    /\ export_pos = Len(export_rows)
    /\ export_batches >= 2
    /\ Len(export_rows) > export_batches

\* What makes the processing of an input file fail by itself: its content
\* cannot be read, or a fault struck while it was processed.
OwnForwardCause(name) ==
    LET sch == read_file_data_in_chunks(<<data_dir_name>> \o name,
                                        last_component(name), data_dir[name])
    IN  \/ ~sch.ok
        \/ ~read_csv(data_dir[name], sch.sep, sch.num_columns).ok
        \/ name \in history.faulted

\* What makes the processing of an archive fail by itself: it is no complete
\* frame of a complete container, or a fault struck while it was processed.
OwnReverseCause(name) ==
    LET decoded == stream_reader(compress_dir[name])
    IN  \/ decoded.status # "ok"
        \/ ~ParquetFile(decoded.out).ok
        \/ name \in history.faulted

C4_AllAttempted ==
    /\ pc \in {"between", "d_for", "d_meta", "d_export", "d_remove", "finished"} =>
          /\ DOMAIN c_status = Eligible(DOMAIN data_dir)
          /\ \A name \in DOMAIN c_status : c_status[name] \in Terminal
    /\ pc = "finished" =>
          /\ DOMAIN d_status = {n \in Range(listing) : endswith_ext(n, {"zstd"})}
          /\ \A name \in DOMAIN d_status : d_status[name] \in Terminal

C4_OwnCauseOnly ==
    /\ \A name \in DOMAIN c_status :
          c_status[name] = "Failed" => OwnForwardCause(name)
    /\ \A name \in DOMAIN d_status :
          d_status[name] = "Failed" => OwnReverseCause(name)

\* C4: Failure isolation.  Whatever files fail, both loops come to their end;
\* when a loop has ended every eligible file of its listing is Done or
\* Failed; and a file is Failed only for a cause of its own, never because
\* another file failed.
C4_FailureIsolation ==
    /\ <>(pc = "finished")
    /\ [](C4_AllAttempted /\ C4_OwnCauseOnly)

\* C4 witness: at the end of compressmain a file of the listing is Failed and
\* a later one is Done, and the same at the end of decompressmain.
C4_Witness ==
    /\ pc = "finished"
    /\ \E a, b \in DOMAIN c_status : c_status[a] = "Failed" /\ c_status[b] = "Done"
    /\ \E i, j \in 1..Len(listing) :
          /\ i < j
          /\ listing[i] \in DOMAIN d_status /\ d_status[listing[i]] = "Failed"
          /\ listing[j] \in DOMAIN d_status /\ d_status[listing[j]] = "Done"

\* C5: Statistics reflect successes only.  After the forward run file_count
\* is the number of files that are Done, and the totals are the sums of the
\* container and archive sizes of those files.
C5_StatsSuccessOnly ==
    pc = "between" =>
        /\ compression_stats.file_count =
              Cardinality({n \in DOMAIN c_status : c_status[n] = "Done"})
        /\ compression_stats.total_original = history.done_original
        /\ compression_stats.total_compressed = history.done_compressed

\* C6: A conversion failure aborts the file.  An input file whose conversion
\* raised is Failed, and compress_with_zstd is not called for it.
C6_ConversionFailureAborts ==
    \A name \in history.conv_failed :
        /\ c_status[name] = "Failed"
        /\ name \notin history.compress_invoked

\* C7: Truncated archive.  Once decompressmain has processed an archive that
\* was cut to a strict prefix, the archive is Failed and neither the
\* decompressed container nor a reconstructed text file is left.
C7_TruncatedArchive ==
    \A name \in history.truncated :
        (name \in DOMAIN d_status /\ d_status[name] # "Pending") =>
            /\ d_status[name] = "Failed"
            /\ ~exists(compress_dir, decompressed_parquet_of(name))
            /\ \A ext \in Exts :
                  ~exists(decompress_dir, output_file_name_of(name, ext))

\* C8: Lossless envelope.  Both loops come to their end; the compression loop
\* has then written every input byte once and in order, the decompression
\* loop has written the input bytes, and an archive of the same input made
\* with any other chunk size decompresses to the same bytes.
C8_LosslessEnvelope ==
    /\ <>[](z_pc = "done")
    /\ [](z_pc \in {"decompress", "done"} =>
             /\ Concat(z_written) = z_input
             /\ stream_reader(z_archive) = [out |-> z_input, status |-> "ok"])
    /\ [](z_pc = "done" =>
             /\ z_out = z_input
             /\ \A m \in 1..MaxChunk :
                   zstd_decompress(zstd_compress(z_input, m), z_chunk_size, TRUE)
                       = [out |-> z_out, raised |-> FALSE])

\* C8 witness: the loops have ended on an input of several chunks whose last
\* chunk is short.
C8_Witness ==
    /\ z_pc = "done"
    /\ Len(z_input) > z_chunk_size
    /\ Len(z_input) % z_chunk_size # 0

\* The valid lines of the sample of the file under inference.
SampleValidLines == valid_lines_of(preview_lines_of(file_lines))

\* C9: Consistent-sample inference.  When the valid lines of the sample all
\* have k fields under the default separator of the type, the inference
\* succeeds with that separator, column_count k and the names col_0..col_{k-1}.
C9_ConsistentSampleInference ==
    (schema # NoSchema /\ SampleValidLines # <<>>) =>
        LET sep    == type_separator(file_type)
            counts == column_counts_of(SampleValidLines, sep)
        IN  Cardinality(Range(counts)) = 1 =>
                /\ schema.ok
                /\ schema.sep = sep
                /\ schema.num_columns = counts[1]
                /\ schema.column_names = column_names_of(counts[1])

\* C10: Separator override.  For a tbl file whose valid sample lines hold more
\* commas than pipes, the inference logs a separator override and succeeds
\* with the comma and the modal field count under the comma.
C10_SeparatorOverride ==
    (/\ schema # NoSchema
     /\ file_type = "tbl"
     /\ SampleValidLines # <<>>
     /\ sep_counter(SampleValidLines, COMMA) > sep_counter(SampleValidLines, PIPE))
    =>  /\ schema.ok
        /\ "sep_override" \in Range(schema.log)
        /\ schema.sep = COMMA
        /\ schema.num_columns = modal_count(column_counts_of(SampleValidLines, COMMA))

\* The lines of the file under inference that follow its first line, at most
\* PreviewIterations of them.
LinesAfterFirst ==
    SubSeq(file_lines, 2, Min(Len(file_lines), 1 + PreviewIterations))

BlankOrComment(line) == strip(line) = <<>> \/ startswith(line, HASH)

\* C11: Inference error outcomes.  The inference fails with the empty-file
\* error exactly when the file has no line after the first, and with the
\* no-valid-data error exactly when there are such lines and every one of
\* them is blank or starts with '#'; with either error no iterator is returned.
C11_InferenceErrorOutcomes ==
    schema # NoSchema =>
        /\ schema.error = "empty_file" <=> LinesAfterFirst = <<>>
        /\ schema.error = "no_valid_data" <=>
              /\ LinesAfterFirst # <<>>
              /\ \A i \in 1..Len(LinesAfterFirst) : BlankOrComment(LinesAfterFirst[i])
        /\ schema.error \in {"empty_file", "no_valid_data"} => ~schema.ok

\* C12: File naming round-trip.  The archive of a Done input file B.E is
\* B.E.zstd in the compression directory, and the file reconstructed from a
\* Done archive carries the full base name B of the input it was made from.
C12_FileNamingRoundTrip ==
    /\ \A name \in DOMAIN c_status :
          c_status[name] = "Done" => exists(compress_dir, with_ext(name, "zstd"))
    /\ pc = "finished" =>
          \A archive \in DOMAIN d_status :
              (d_status[archive] = "Done" /\ archive \in DOMAIN history.origin) =>
                  \E ext \in Exts :
                      exists(decompress_dir,
                             with_ext(splitext(history.origin[archive])[1], ext))

\* compressmain, lines 658-666: the paths of the intermediate container and
\* of the archive of an input file
temp_parquet_of(input_name) == with_ext(splitext(input_name)[1], "parquet")
compressed_file_of(input_name) == with_ext(splitext(input_name)[1], "zstd")

\* C13: No artifact collisions.  Two distinct input files that have been
\* processed used distinct intermediate and archive paths, and the archive
\* of a Done file is still the one made from it; two distinct archives that
\* have been processed used distinct intermediate and output paths.
C13_NoArtifactCollisions ==
    /\ \A a, b \in DOMAIN c_status :
          (a # b /\ c_status[a] # "Pending" /\ c_status[b] # "Pending") =>
              /\ temp_parquet_of(a) # temp_parquet_of(b)
              /\ compressed_file_of(a) # compressed_file_of(b)
    /\ \A a \in DOMAIN c_status :
          (c_status[a] = "Done" /\ pc \in {"c_for", "between"}) =>
              /\ compressed_file_of(a) \in DOMAIN history.origin
              /\ history.origin[compressed_file_of(a)] = a
    /\ \A a, b \in DOMAIN d_status :
          (a # b /\ d_status[a] # "Pending" /\ d_status[b] # "Pending") =>
              /\ decompressed_parquet_of(a) # decompressed_parquet_of(b)
              /\ \A ext \in Exts :
                    output_file_name_of(a, ext) # output_file_name_of(b, ext)

\* C14: Preview sample composition.  The sample is the lines of the file that
\* immediately follow the first, at most PreviewIterations of them, none
\* skipped; a file of two lines whose second line is valid data has a sample
\* of one line and its inference succeeds.
C14_PreviewSampleComposition ==
    schema # NoSchema =>
        /\ preview_lines_of(file_lines) = LinesAfterFirst
        /\ (Len(file_lines) = 2 /\ ~BlankOrComment(file_lines[2])) =>
              /\ Len(preview_lines_of(file_lines)) = 1
              /\ schema.ok

\* The candidates that have the highest count over the valid lines, as
\* positions in the order pipe, comma, tab.
TiedCandidates(valid_lines) ==
    LET cnt == [i \in 1..3 |-> sep_counter(valid_lines, <<PIPE, COMMA, TAB>>[i])]
    IN  {i \in 1..3 : \A j \in 1..3 : cnt[j] <= cnt[i]}

FirstTiedCandidate(valid_lines) ==
    LET tied == TiedCandidates(valid_lines)
    IN  <<PIPE, COMMA, TAB>>[CHOOSE i \in tied : \A j \in tied : i <= j]

\* C15: Separator scoring tie-break.  When two or more of pipe, comma and tab
\* have the same highest count over the valid sample lines (all zero
\* included), the detected separator is the first of them in the order pipe,
\* comma, tab; it is the separator of every schema the inference returns.
C15_SeparatorTieBreak ==
    LET valid == SampleValidLines
    IN  (/\ schema # NoSchema
         /\ valid # <<>>
         /\ Cardinality(TiedCandidates(valid)) >= 2)
        =>  /\ most_common_sep(valid) = FirstTiedCandidate(valid)
            /\ schema.ok => schema.sep = FirstTiedCandidate(valid)

\* C15 witness: the inference has returned a schema for a sample in which
\* exactly two candidates share a highest count that is not zero.
C15_Witness ==
    LET valid == SampleValidLines
    IN  /\ schema # NoSchema
        /\ schema.ok
        /\ valid # <<>>
        /\ Cardinality(TiedCandidates(valid)) = 2
        /\ \E i \in TiedCandidates(valid) :
              sep_counter(valid, <<PIPE, COMMA, TAB>>[i]) > 0

\* The columnar containers in a directory.
Containers(dir) == {n \in DOMAIN dir : endswith_ext(n, {"parquet"})}

\* The names whose status becomes st in the step.
Becomes(status, status_next, st) ==
    {n \in DOMAIN status \cap DOMAIN status_next :
        status[n] # st /\ status_next[n] = st}

\* A container disappears only in the step that follows the successful
\* return of the step that supersedes it: it is the container of the file
\* being processed, whose archive (forward) or reconstructed text file
\* (reverse) exists.
RemovedOnlyWhenSuperseded ==
    \A p \in Containers(compress_dir) \ Containers(compress_dir') :
        \/ /\ pc = "c_remove"
           /\ p = temp_parquet_of(file_name)
           /\ file_name \in history.compress_invoked
           /\ exists(compress_dir, compressed_file_of(file_name))
        \/ /\ pc = "d_remove"
           /\ p = decompressed_parquet_of(file_name)
           /\ exists(decompress_dir, output_file_name_of(file_name, original_ext))

\* When a file becomes Done its container is gone and what supersedes it is
\* there.
DoneLeavesOnlyResult ==
    /\ \A n \in Becomes(c_status, c_status', "Done") :
          /\ ~exists(compress_dir', temp_parquet_of(n))
          /\ exists(compress_dir', compressed_file_of(n))
    /\ \A n \in Becomes(d_status, d_status', "Done") :
          /\ ~exists(compress_dir', decompressed_parquet_of(n))
          /\ \E ext \in Exts : exists(decompress_dir', output_file_name_of(n, ext))

\* A step in which a file becomes Failed removes no container.
FailureKeepsContainer ==
    (Becomes(c_status, c_status', "Failed") # {}
        \/ Becomes(d_status, d_status', "Failed") # {})
    => Containers(compress_dir) \subseteq Containers(compress_dir')

\* C16: Intermediate deletion ordering.  In both directions the container of
\* a file is removed only after the step that supersedes it has returned
\* successfully, never before or during it; when a file becomes Done its
\* container no longer exists while its archive or reconstructed file does;
\* and when a step fails no container is removed.
C16_IntermediateDeletionOrdering ==
    [][RemovedOnlyWhenSuperseded /\ DoneLeavesOnlyResult /\ FailureKeepsContainer]_vars

\* C16 witness: an archive is Done in the reverse direction, after an input
\* file had failed in or after compress_with_zstd in the forward direction.
C16_Witness ==
    /\ \E n \in DOMAIN d_status : d_status[n] = "Done"
    /\ \E n \in DOMAIN c_status :
          c_status[n] = "Failed" /\ n \in history.compress_invoked
    /\ \E n \in DOMAIN c_status : c_status[n] = "Done"

\* C17: Modal column count.  When the valid sample lines disagree on the
\* field count under the default separator of the type, the inference
\* succeeds, with column_count the most frequent field count of the valid
\* sample lines under the separator it returns, whether the detected
\* separator replaced the default or equals it.
C17_ModalColumnCount ==
    LET valid == SampleValidLines
    IN  (/\ schema # NoSchema
         /\ valid # <<>>
         /\ Cardinality(Range(column_counts_of(valid, type_separator(file_type)))) > 1)
        =>  /\ schema.ok
            /\ schema.num_columns = modal_count(column_counts_of(valid, schema.sep))

\* The archives in a directory.
Archives(dir) == {n \in DOMAIN dir : endswith_ext(n, {"zstd"})}

\* The two runs leave the input files as they are.
InputsUntouched == data_dir' = data_dir

\* decompressmain leaves every archive as it is.
ArchivesUntouched ==
    pc \in {"d_for", "d_meta", "d_export", "d_remove"} =>
        /\ Archives(compress_dir') = Archives(compress_dir)
        /\ \A n \in Archives(compress_dir) : compress_dir'[n] = compress_dir[n]

\* A file that disappears is a container, and the one that was written for
\* the file being processed.
RemovesOwnContainerOnly ==
    /\ DOMAIN decompress_dir \subseteq DOMAIN decompress_dir'
    /\ \A p \in DOMAIN compress_dir \ DOMAIN compress_dir' :
          /\ endswith_ext(p, {"parquet"})
          /\ InLoop
          /\ p \in DOMAIN history.created
          /\ history.created[p] = file_name

\* C18: Inputs are never consumed or altered.  No step of compressmain or
\* decompressmain changes the data directory, no step of decompressmain
\* changes or removes an archive, and the only files removed are containers
\* that were created for the file being processed.
C18_InputsNeverConsumed ==
    [][(pc \notin {"between", "finished"}) =>
          (InputsUntouched /\ ArchivesUntouched /\ RemovesOwnContainerOnly)]_vars

\* C18 without its last clause: the inputs and the archives stay as they are.
InputsAndArchivesPreserved ==
    [][(pc \notin {"between", "finished"}) =>
          (InputsUntouched /\ ArchivesUntouched)]_vars

====
